---- MODULE Spec2Model ----
(***************************************************************************)
(* Model of the native spectrum analysis module:                          *)
(*   android/src/main/cpp/audio-analysis-jni.cpp  (computeFft, cleanupFft) *)
(*   android/src/main/cpp/kiss_fft/_kiss_fft_guts.h (kf_bfly_generic)      *)
(*                                                                         *)
(* Floating point values are kept symbolic: a window coefficient is the    *)
(* pair <<i, n-1>> (the argument of the cosine), a windowed sample is the  *)
(* pair <<sample, coefficient>>, a spectrum bin is a record naming the     *)
(* transform size, the bin index and the samples it was computed from, a   *)
(* magnitude is the pair <<bin, divisor>>.  Two symbolic values are equal  *)
(* exactly when the code computes them from the same operands.             *)
(***************************************************************************)
EXTENDS Integers, Sequences, FiniteSets, TLC

\* ---------------------------------------------------------------- bounds
MaxNfft == 4
MaxCap == 3
NumInputs == 2
MaxAddr == 2
MaxNorig == 12

NULL == 0
Addr == 1..MaxAddr
NfftArgs == (0 - 1)..MaxNfft
CapArgs == 0..MaxCap
Threads == {1, 2}

Min(a, b) == IF a < b THEN a ELSE b

\* The caller's sample arrays: always long enough for the largest size.
InputArrays == {[i \in 1..MaxNfft |-> 10 * v + i] : v \in 1..NumInputs}

VARIABLES
  \* process-wide cache (audio-analysis-jni.cpp:8-12)
  cfg, current_nfft, window, fft_out, fft_in,
  \* the C heap: which addresses hold a live kiss_fftr configuration
  heap,
  \* the last call of the single-threaded caller and what it did
  call, outLog, trace,
  \* two unsynchronised callers, statement by statement
  pc, loc, ub, raced, interfered, crashed,
  \* kf_bfly_generic
  bpc, m, p, fstride, Norig, u, k, q1, q, twidx, scratch, Fout

cacheVars == <<cfg, current_nfft, window, fft_out, fft_in, heap>>
callVars == <<call, outLog, trace>>
mtVars == <<pc, loc, ub, raced, interfered, crashed>>
bflyVars == <<bpc, m, p, fstride, Norig, u, k, q1, q, twidx, scratch, Fout>>
vars == <<cacheVars, callVars, mtVars, bflyVars>>

\* ------------------------------------------------------------ the C heap
NoBlock == [live |-> FALSE, nfft |-> 0]

\* free(cfg)
free(h, ptr) == [h EXCEPT ![ptr] = NoBlock]

\* kiss_fftr_alloc(nfft, 0, nullptr, nullptr): the addresses it may return.
\* NULL is always a possible result (malloc may fail; the library also
\* refuses sizes it does not support).
\* Addresses are interchangeable: the allocator hands out the lowest free one.
kiss_fftr_alloc(h) ==
  {NULL} \cup {a \in Addr : ~h[a].live /\ \A b \in Addr : b < a => h[b].live}

Allocated(h, ptr, nfft) ==
  IF ptr = NULL THEN h ELSE [h EXCEPT ![ptr] = [live |-> TRUE, nfft |-> nfft]]

Live(h) == {a \in Addr : h[a].live}

\* ------------------------------------------------------- pipeline pieces
\* line 17: if (nfft <= 0) return;
InvalidSizeNegativeOnly(nfft) == nfft < 0
InvalidSize(nfft) == nfft <= 0

\* v[i] of a C array or vector; past the end the read yields whatever is there.
At(v, i) == IF i \in 1..Len(v) THEN v[i] ELSE "garbage"

\* line 21: if (cfg == nullptr || current_nfft != nfft)
NeedsReallocNullOnly(c, cur, nfft) == c = NULL
NeedsReallocAlways(c, cur, nfft) == TRUE
NeedsRealloc(c, cur, nfft) == c = NULL \/ cur # nfft

\* std::vector<T>::resize(n): keeps the first n elements, value-initialises
\* the new ones.
resize(v, n, zero) == [i \in 1..n |-> IF i <= Len(v) THEN v[i] ELSE zero]

\* lines 36-38: window[i] = 0.5f * (1.0f - cosf(2.0f * M_PI * i / (nfft - 1)))
HannWindow(w, nfft) ==
  [i \in 1..Len(w) |-> IF i <= nfft THEN <<i - 1, nfft - 1>> ELSE w[i]]

CpxZero == [nfft |-> 0, bin |-> 0, of |-> <<>>]

\* lines 58-60: fft_in[i] = inData[i] * window[i], i in [0, nfft)
ApplyWindow(buf, inData, win, nfft) ==
  [i \in 1..Len(buf) |-> IF i <= nfft THEN <<At(inData, i), At(win, i)>> ELSE buf[i]]

\* kiss_fftr(cfg, timedata, freqdata): reads st->nfft scalars, writes
\* st->nfft/2 + 1 bins (kiss_fftr.h:31-36).
kiss_fftr(stNfft, timedata, freqdata) ==
  [i \in 1..Len(freqdata) |->
     IF i <= stNfft \div 2 + 1
       THEN [nfft |-> stNfft, bin |-> i - 1,
             of |-> [j \in 1..stNfft |-> At(timedata, j)]]
       ELSE freqdata[i]]

\* line 75: int bins = std::min((int)outSize, (int)(nfft / 2));
BinsWithNyquist(outSize, nfft) == Min(outSize, nfft \div 2 + 1)
Bins(outSize, nfft) == Min(outSize, nfft \div 2)

\* lines 77-86: outData[i] = sqrtf(re*re + im*im) / (float)(nfft / 2)
Magnitudes(spectrum, bins, nfft) ==
  [i \in 1..bins |-> [index |-> i - 1, value |-> <<At(spectrum, i), nfft \div 2>>]]

\* --------------------------------------------------- the two entry points
CacheState ==
  [cfg |-> cfg, current_nfft |-> current_nfft, window |-> window,
   fft_out |-> fft_out, fft_in |-> fft_in, heap |-> heap]

\* lines 21-39: the lazy (re)allocation.  `a` is what kiss_fftr_alloc returns
\* when it is called.
EnsureKeepsBuffers(st, nfft, a) ==
  IF ~NeedsRealloc(st.cfg, st.current_nfft, nfft)
    THEN [st EXCEPT !.trace = <<>>]
    ELSE
      LET h1 == IF st.cfg # NULL THEN free(st.heap, st.cfg) ELSE st.heap
          ev1 == IF st.cfg # NULL
                   THEN <<[ev |-> "free", ptr |-> st.cfg,
                           live |-> st.heap[st.cfg].live]>>
                   ELSE <<>>
          ev2 == <<[ev |-> "alloc", ptr |-> a, nfft |-> nfft,
                    liveBefore |-> Cardinality(Live(h1))]>>
      IN IF a = NULL
           THEN [st EXCEPT !.cfg = NULL, !.heap = h1, !.trace = ev1 \o ev2]
           ELSE [st EXCEPT !.cfg = a, !.heap = Allocated(h1, a, nfft),
                           !.current_nfft = nfft,
                           !.window = HannWindow(resize(st.window, nfft, 0), nfft),
                           !.trace = ev1 \o ev2 \o <<[ev |-> "rebuild", nfft |-> nfft]>>]
EnsureLeaksOld(st, nfft, a) ==
  IF ~NeedsRealloc(st.cfg, st.current_nfft, nfft)
    THEN [st EXCEPT !.trace = <<>>]
    ELSE
      LET ev2 == <<[ev |-> "alloc", ptr |-> a, nfft |-> nfft,
                    liveBefore |-> Cardinality(Live(st.heap))]>>
      IN IF a = NULL
           THEN [st EXCEPT !.cfg = NULL, !.trace = ev2]
           ELSE [st EXCEPT !.cfg = a, !.heap = Allocated(st.heap, a, nfft),
                           !.current_nfft = nfft,
                           !.window = HannWindow(resize(st.window, nfft, 0), nfft),
                           !.fft_in = resize(st.fft_in, nfft, 0),
                           !.fft_out = resize(st.fft_out, nfft \div 2 + 1, CpxZero),
                           !.trace = ev2 \o <<[ev |-> "rebuild", nfft |-> nfft]>>]
Ensure(st, nfft, a) ==
  IF ~NeedsRealloc(st.cfg, st.current_nfft, nfft)
    THEN [st EXCEPT !.trace = <<>>]
    ELSE
      LET h1 == IF st.cfg # NULL THEN free(st.heap, st.cfg) ELSE st.heap
          ev1 == IF st.cfg # NULL
                   THEN <<[ev |-> "free", ptr |-> st.cfg,
                           live |-> st.heap[st.cfg].live]>>
                   ELSE <<>>
          ev2 == <<[ev |-> "alloc", ptr |-> a, nfft |-> nfft,
                    liveBefore |-> Cardinality(Live(h1))]>>
      IN IF a = NULL
           THEN [st EXCEPT !.cfg = NULL, !.heap = h1, !.trace = ev1 \o ev2]
           ELSE [st EXCEPT !.cfg = a, !.heap = Allocated(h1, a, nfft),
                           !.current_nfft = nfft,
                           !.window = HannWindow(resize(st.window, nfft, 0), nfft),
                           !.fft_in = resize(st.fft_in, nfft, 0),
                           !.fft_out = resize(st.fft_out, nfft \div 2 + 1, CpxZero),
                           !.trace = ev1 \o ev2 \o <<[ev |-> "rebuild", nfft |-> nfft]>>]

\* lines 57-86: window, transform, magnitudes, on a state that holds a
\* configuration.
Analyze(st, inData, outSize, nfft) ==
  LET fin == ApplyWindow(st.fft_in, inData, st.window, nfft)
      fout == kiss_fftr(st.heap[st.cfg].nfft, fin, st.fft_out)
      use == [ev |-> "fftr", ptr |-> st.cfg, live |-> st.heap[st.cfg].live,
              stNfft |-> st.heap[st.cfg].nfft, nfft |-> nfft]
  IN [st EXCEPT !.fft_in = fin, !.fft_out = fout,
                !.trace = st.trace \o <<use>>,
                !.outLog = Magnitudes(fout, Bins(outSize, nfft), nfft)]

\* Java_com_realtimeaudio_AudioEngine_computeFft, whole call, from the state
\* `s` of the cache.  bufOk: both GetFloatArrayElements calls returned
\* non-null (lines 42-49).
computeFft(s, inData, outSize, nfft, a, bufOk) ==
  LET st == [cfg |-> s.cfg, current_nfft |-> s.current_nfft,
             window |-> s.window, fft_out |-> s.fft_out, fft_in |-> s.fft_in,
             heap |-> s.heap, trace |-> <<>>, outLog |-> <<>>]
  IN IF InvalidSize(nfft) THEN st
     ELSE LET e == Ensure(st, nfft, a)
          IN IF NeedsRealloc(st.cfg, st.current_nfft, nfft) /\ a = NULL THEN e
             ELSE IF ~bufOk THEN e
             ELSE IF e.cfg = NULL THEN e
             ELSE Analyze(e, inData, outSize, nfft)

\* Java_com_realtimeaudio_AudioEngine_cleanupFft, whole call.
cleanupFftGuardedReset(s) ==
  LET st == [cfg |-> s.cfg, current_nfft |-> s.current_nfft,
             window |-> s.window, fft_out |-> s.fft_out, fft_in |-> s.fft_in,
             heap |-> s.heap, trace |-> <<>>, outLog |-> <<>>]
  IN IF st.cfg # NULL
       THEN [st EXCEPT !.heap = free(st.heap, st.cfg), !.cfg = NULL,
                       !.current_nfft = 0,
                       !.trace = <<[ev |-> "free", ptr |-> st.cfg,
                                    live |-> st.heap[st.cfg].live]>>]
       ELSE st
cleanupFft(s) ==
  LET st == [cfg |-> s.cfg, current_nfft |-> s.current_nfft,
             window |-> s.window, fft_out |-> s.fft_out, fft_in |-> s.fft_in,
             heap |-> s.heap, trace |-> <<>>, outLog |-> <<>>]
  IN IF st.cfg # NULL
       THEN [st EXCEPT !.heap = free(st.heap, st.cfg), !.cfg = NULL,
                       !.current_nfft = 0,
                       !.trace = <<[ev |-> "free", ptr |-> st.cfg,
                                    live |-> st.heap[st.cfg].live]>>]
       ELSE [st EXCEPT !.current_nfft = 0]

\* ------------------------------------------- single-threaded caller: Spec
InitCache ==
  /\ cfg = NULL
  /\ current_nfft = 0
  /\ window = <<>>
  /\ fft_out = <<>>
  /\ fft_in = <<>>
  /\ heap = [a \in Addr |-> NoBlock]

NoCall == [op |-> "none"]

InitCall ==
  /\ call = NoCall
  /\ outLog = <<>>
  /\ trace = <<>>

InitMTIdle ==
  /\ pc = [t \in Threads |-> "idle"]
  /\ loc = [t \in Threads |-> [nfft |-> 0]]
  /\ ub = [t \in Threads |-> {}]
  /\ raced = FALSE
  /\ interfered = [t \in Threads |-> FALSE]
  /\ crashed = FALSE

InitBflyIdle ==
  /\ bpc = "off"
  /\ m = 0 /\ p = 0 /\ fstride = 0 /\ Norig = 0
  /\ u = 0 /\ k = 0 /\ q1 = 0 /\ q = 0 /\ twidx = 0
  /\ scratch = <<>> /\ Fout = <<>>

Init == InitCache /\ InitCall /\ InitMTIdle /\ InitBflyIdle

Install(r) ==
  /\ cfg' = r.cfg
  /\ current_nfft' = r.current_nfft
  /\ window' = r.window
  /\ fft_out' = r.fft_out
  /\ fft_in' = r.fft_in
  /\ heap' = r.heap
  /\ outLog' = r.outLog
  /\ trace' = r.trace

\* What kiss_fftr_alloc may return in a call from the current state (NULL
\* alone when the call never reaches the allocation).
AllocResults(nfft) ==
  IF ~InvalidSize(nfft) /\ NeedsRealloc(cfg, current_nfft, nfft)
    THEN kiss_fftr_alloc(IF cfg # NULL THEN free(heap, cfg) ELSE heap)
    ELSE {NULL}

\* The call gets as far as line 57: it reads the samples and the capacity.
ReachesAnalysis(nfft, a, bufOk) ==
  /\ ~InvalidSize(nfft)
  /\ NeedsRealloc(cfg, current_nfft, nfft) => a # NULL
  /\ bufOk

\* Arguments a call never looks at are not enumerated.
NoArray == <<>>

ComputeFft ==
  \E nfft \in NfftArgs :
    \E a \in AllocResults(nfft),
       bufOk \in (IF InvalidSize(nfft) THEN {TRUE} ELSE BOOLEAN) :
      \E inData \in (IF ReachesAnalysis(nfft, a, bufOk)
                       THEN InputArrays ELSE {NoArray}),
         outSize \in (IF ReachesAnalysis(nfft, a, bufOk)
                        THEN CapArgs ELSE {0}) :
        /\ Install(computeFft(CacheState, inData, outSize, nfft, a, bufOk))
        /\ call' = [op |-> "computeFft", inData |-> inData,
                    outSize |-> outSize, nfft |-> nfft, bufOk |-> bufOk]
        /\ UNCHANGED <<mtVars, bflyVars>>

CleanupFft ==
  /\ Install(cleanupFft(CacheState))
  /\ call' = [op |-> "cleanupFft"]
  /\ UNCHANGED <<mtVars, bflyVars>>

Next == ComputeFft \/ CleanupFft

Spec == Init /\ [][Next]_vars

\* --------------------------------- two unsynchronised callers: SpecMT
\* The same two entry points, called from two threads with no lock around
\* them: each thread runs its call statement by statement against the shared
\* statics.  A step that the language leaves undefined (running the
\* transform with a freed or null configuration, indexing a vector past its
\* end, freeing a block twice) is noted in ub and either kills the process
\* or goes on with whatever values were there.
\*   pc[t]         where thread t is in its call
\*   loc[t].nfft   the nfft argument of thread t's call
\*   ub[t]         what went wrong in thread t's current call
\*   raced         two calls have overlapped at some point
\*   interfered[t] another thread freed the configuration or resized the
\*                 buffers while t was between its ensure step and its end

\* Sizes the two callers ask for, and the arrays they pass.
MTSizes == {2, MaxNfft}
MTInput == [i \in 1..MaxNfft |-> 10 + i]

\* Lines 42-86 of a call: past the ensure step, not yet returned.
InFlight == {"arrays", "window", "fft", "magnitude"}

Others(t) == Threads \ {t}

\* Thread t frees or resizes: every other thread in flight is interfered with.
Interfere(t) ==
  interfered' = [s \in Threads |->
                   IF s # t /\ pc[s] \in InFlight THEN TRUE ELSE interfered[s]]

\* What an undefined step may do next: kill the process, or go on.
Outcome(undefined) ==
  \/ crashed' = FALSE
  \/ undefined /\ crashed' = TRUE

Goto(t, label) == pc' = [pc EXCEPT ![t] = label]
Note(t, tags) == ub' = [ub EXCEPT ![t] = @ \cup tags]

\* A thread enters computeFft (nfft > 0) or cleanupFft.
MTEnter(t) ==
  /\ ~crashed
  /\ pc[t] = "idle"
  /\ \/ \E nfft \in MTSizes :
          /\ loc' = [loc EXCEPT ![t] = [nfft |-> nfft]]
          /\ Goto(t, "ensure")
     \/ /\ loc' = [loc EXCEPT ![t] = [nfft |-> 0]]
        /\ Goto(t, "cleanup")
  /\ ub' = [ub EXCEPT ![t] = {}]
  /\ interfered' = [interfered EXCEPT ![t] = FALSE]
  /\ raced' = (raced \/ \E s \in Others(t) : pc[s] # "idle")
  /\ UNCHANGED <<cacheVars, crashed, callVars, bflyVars>>

\* line 21: if (cfg == nullptr || current_nfft != nfft)
MTEnsure(t) ==
  /\ ~crashed
  /\ pc[t] = "ensure"
  /\ Goto(t, IF NeedsRealloc(cfg, current_nfft, loc[t].nfft)
               THEN "free" ELSE "arrays")
  /\ UNCHANGED <<cacheVars, loc, ub, raced, interfered, crashed>>
  /\ UNCHANGED <<callVars, bflyVars>>

\* lines 22-23: if (cfg) free(cfg);
MTFree(t) ==
  /\ ~crashed
  /\ pc[t] = "free"
  /\ IF cfg = NULL
       THEN /\ UNCHANGED <<heap, ub, interfered, crashed>>
       ELSE /\ heap' = free(heap, cfg)
            /\ Note(t, IF heap[cfg].live THEN {} ELSE {"doubleFree"})
            /\ Interfere(t)
            /\ Outcome(~heap[cfg].live)
  /\ Goto(t, "alloc")
  /\ UNCHANGED <<cfg, current_nfft, window, fft_out, fft_in, loc, raced>>
  /\ UNCHANGED <<callVars, bflyVars>>

\* lines 24-28: cfg = kiss_fftr_alloc(...); if (cfg == nullptr) return;
MTAlloc(t) ==
  /\ ~crashed
  /\ pc[t] = "alloc"
  /\ \E a \in kiss_fftr_alloc(heap) :
       /\ cfg' = a
       /\ heap' = Allocated(heap, a, loc[t].nfft)
       /\ Goto(t, IF a = NULL THEN "idle" ELSE "rebuild")
  /\ UNCHANGED <<current_nfft, window, fft_out, fft_in>>
  /\ UNCHANGED <<loc, ub, raced, interfered, crashed, callVars, bflyVars>>

\* lines 29-38: current_nfft = nfft; the three resizes; the window loop.
MTRebuild(t) ==
  /\ ~crashed
  /\ pc[t] = "rebuild"
  /\ current_nfft' = loc[t].nfft
  /\ window' = HannWindow(resize(window, loc[t].nfft, 0), loc[t].nfft)
  /\ fft_in' = resize(fft_in, loc[t].nfft, 0)
  /\ fft_out' = resize(fft_out, loc[t].nfft \div 2 + 1, CpxZero)
  /\ Interfere(t)
  /\ Goto(t, "arrays")
  /\ UNCHANGED <<cfg, heap, loc, ub, raced, crashed, callVars, bflyVars>>

\* lines 42-55: get the arrays; return if either is null or cfg is null.
MTArrays(t) ==
  /\ ~crashed
  /\ pc[t] = "arrays"
  /\ \E bufOk \in BOOLEAN :
       Goto(t, IF bufOk /\ cfg # NULL THEN "window" ELSE "idle")
  /\ UNCHANGED <<cacheVars, loc, ub, raced, interfered, crashed>>
  /\ UNCHANGED <<callVars, bflyVars>>

\* lines 58-60: fft_in[i] = inData[i] * window[i] for i in [0, nfft)
MTWindow(t) ==
  /\ ~crashed
  /\ pc[t] = "window"
  /\ fft_in' = ApplyWindow(fft_in, MTInput, window, loc[t].nfft)
  /\ Note(t, (IF Len(window) # loc[t].nfft \/ Len(fft_in) # loc[t].nfft
                THEN {"wrongSize"} ELSE {})
             \cup (IF Len(window) < loc[t].nfft \/ Len(fft_in) < loc[t].nfft
                     THEN {"overrun"} ELSE {}))
  /\ Outcome(Len(window) < loc[t].nfft \/ Len(fft_in) < loc[t].nfft)
  /\ Goto(t, "fft")
  /\ UNCHANGED <<cfg, current_nfft, window, fft_out, heap>>
  /\ UNCHANGED <<loc, raced, interfered, callVars, bflyVars>>

\* line 63: kiss_fftr(cfg, fft_in.data(), fft_out.data());
MTFft(t) ==
  /\ ~crashed
  /\ pc[t] = "fft"
  /\ IF cfg = NULL \/ ~heap[cfg].live
       THEN /\ fft_out' = [i \in 1..Len(fft_out) |-> "garbage"]
            /\ Note(t, IF cfg = NULL THEN {"nullCfg"} ELSE {"freedCfg"})
            /\ Outcome(TRUE)
       ELSE LET stNfft == heap[cfg].nfft
                short == \/ Len(fft_in) < stNfft
                         \/ Len(fft_out) < stNfft \div 2 + 1
            IN /\ fft_out' = kiss_fftr(stNfft, fft_in, fft_out)
               /\ Note(t, (IF stNfft # loc[t].nfft THEN {"wrongSize"} ELSE {})
                          \cup (IF short THEN {"overrun"} ELSE {}))
               /\ Outcome(short)
  /\ Goto(t, "magnitude")
  /\ UNCHANGED <<cfg, current_nfft, window, fft_in, heap>>
  /\ UNCHANGED <<loc, raced, interfered, callVars, bflyVars>>

\* lines 74-90: the magnitudes of bins [0, bins), then release the arrays.
MTMagnitude(t) ==
  /\ ~crashed
  /\ pc[t] = "magnitude"
  /\ LET bins == Bins(MaxCap, loc[t].nfft)
     IN /\ Note(t, (IF Len(fft_out) # loc[t].nfft \div 2 + 1
                      THEN {"wrongSize"} ELSE {})
                   \cup (IF Len(fft_out) < bins THEN {"overrun"} ELSE {}))
        /\ Outcome(Len(fft_out) < bins)
  /\ Goto(t, "idle")
  /\ UNCHANGED <<cacheVars, loc, raced, interfered, callVars, bflyVars>>

\* lines 95-96: if (cfg) free(cfg);
MTCleanupFree(t) ==
  /\ ~crashed
  /\ pc[t] = "cleanup"
  /\ IF cfg = NULL
       THEN /\ Goto(t, "reset")
            /\ UNCHANGED <<heap, ub, interfered, crashed>>
       ELSE /\ heap' = free(heap, cfg)
            /\ Note(t, IF heap[cfg].live THEN {} ELSE {"doubleFree"})
            /\ Interfere(t)
            /\ Outcome(~heap[cfg].live)
            /\ Goto(t, "null")
  /\ UNCHANGED <<cfg, current_nfft, window, fft_out, fft_in, loc, raced>>
  /\ UNCHANGED <<callVars, bflyVars>>

\* line 97: cfg = nullptr;
MTCleanupNull(t) ==
  /\ ~crashed
  /\ pc[t] = "null"
  /\ cfg' = NULL
  /\ Goto(t, "reset")
  /\ UNCHANGED <<current_nfft, window, fft_out, fft_in, heap>>
  /\ UNCHANGED <<loc, ub, raced, interfered, crashed, callVars, bflyVars>>

\* line 99: current_nfft = 0;
MTCleanupReset(t) ==
  /\ ~crashed
  /\ pc[t] = "reset"
  /\ current_nfft' = 0
  /\ Goto(t, "idle")
  /\ UNCHANGED <<cfg, window, fft_out, fft_in, heap>>
  /\ UNCHANGED <<loc, ub, raced, interfered, crashed, callVars, bflyVars>>

NextMT ==
  \E t \in Threads :
    \/ MTEnter(t)
    \/ MTEnsure(t)
    \/ MTFree(t)
    \/ MTAlloc(t)
    \/ MTRebuild(t)
    \/ MTArrays(t)
    \/ MTWindow(t)
    \/ MTFft(t)
    \/ MTMagnitude(t)
    \/ MTCleanupFree(t)
    \/ MTCleanupNull(t)
    \/ MTCleanupReset(t)

SpecMT == Init /\ [][NextMT]_vars

\* ------------------------------------------- kf_bfly_generic: SpecBfly
\* One layer of the mixed-radix decomposition, statement by statement.
\* A complex value is kept symbolic: an input sample [in |-> i], or a sum of
\* terms, each a gathered value with the index of the twiddle factor it was
\* multiplied by ("none" for the term taken as it is).

\* lines 211-213: twidx += fstride * k; if (twidx >= Norig) twidx -= Norig;
AdvanceTwiddleStrict(tw, stride, pos, n) ==
  IF tw + stride * pos > n THEN tw + stride * pos - n ELSE tw + stride * pos
AdvanceTwiddle(tw, stride, pos, n) ==
  IF tw + stride * pos >= n THEN tw + stride * pos - n ELSE tw + stride * pos

\* The callers' parameters: one layer of a decomposition of Norig.
BflyParams ==
  {par \in [m : 1..MaxNorig, p : 2..MaxNorig, fstride : 1..MaxNorig] :
     par.fstride * par.m * par.p <= MaxNorig}

InitBfly ==
  /\ InitCache /\ InitCall /\ InitMTIdle
  /\ \E par \in BflyParams :
       /\ m = par.m /\ p = par.p /\ fstride = par.fstride
       /\ Norig = par.fstride * par.m * par.p
       /\ Fout = [i \in 0..(par.m * par.p - 1) |-> [in |-> i]]
  /\ bpc = "gather"
  /\ u = 0 /\ k = 0 /\ q1 = 0 /\ q = 0 /\ twidx = 0
  /\ scratch = <<>>

\* lines 198-206: for lane u, scratch[q1] = Fout[u + q1*m]; then k = u.
BflyGather ==
  /\ bpc = "gather"
  /\ u < m
  /\ scratch' = [i \in 0..(p - 1) |-> Fout[u + i * m]]
  /\ k' = u
  /\ q1' = 0
  /\ bpc' = "position"
  /\ UNCHANGED <<m, p, fstride, Norig, u, q, twidx, Fout>>
  /\ UNCHANGED <<cacheVars, callVars, mtVars>>

\* lines 207-209: int twidx = 0; Fout[k] = scratch[0];
BflyStartPosition ==
  /\ bpc = "position"
  /\ q1 < p
  /\ twidx' = 0
  /\ Fout' = [Fout EXCEPT ![k] = [sum |-> <<[v |-> scratch[0], tw |-> "none"]>>]]
  /\ q' = 1
  /\ bpc' = "term"
  /\ UNCHANGED <<m, p, fstride, Norig, u, k, q1, scratch>>
  /\ UNCHANGED <<cacheVars, callVars, mtVars>>

\* lines 210-216: one turn of the loop over q.
BflyTerm ==
  /\ bpc = "term"
  /\ q < p
  /\ LET tw == AdvanceTwiddle(twidx, fstride, k, Norig)
     IN /\ twidx' = tw
        /\ Fout' = [Fout EXCEPT ![k] =
                      [sum |-> Append(@.sum, [v |-> scratch[q], tw |-> tw])]]
  /\ q' = q + 1
  /\ UNCHANGED <<bpc, m, p, fstride, Norig, u, k, q1, scratch>>
  /\ UNCHANGED <<cacheVars, callVars, mtVars>>

\* line 217: k += m; and ++q1.
BflyEndPosition ==
  /\ bpc = "term"
  /\ q >= p
  /\ k' = k + m
  /\ q1' = q1 + 1
  /\ bpc' = "position"
  /\ UNCHANGED <<m, p, fstride, Norig, u, q, twidx, scratch, Fout>>
  /\ UNCHANGED <<cacheVars, callVars, mtVars>>

\* line 198: ++u, and the end of the outer loop.
BflyEndLane ==
  /\ bpc = "position"
  /\ q1 >= p
  /\ u' = u + 1
  /\ bpc' = IF u + 1 < m THEN "gather" ELSE "done"
  /\ UNCHANGED <<m, p, fstride, Norig, k, q1, q, twidx, scratch, Fout>>
  /\ UNCHANGED <<cacheVars, callVars, mtVars>>

NextBfly ==
  BflyGather \/ BflyStartPosition \/ BflyTerm \/ BflyEndPosition \/ BflyEndLane

SpecBfly == InitBfly /\ [][NextBfly]_vars

\* ============================================================ properties
\* What the last call of the single-threaded caller was.
IsCompute == call.op = "computeFft"
IsCleanup == call.op = "cleanupFft"

\* The last call got through: positive size, configuration available after
\* the ensure step, both arrays accessible.
Succeeded == IsCompute /\ call.nfft > 0 /\ call.bufOk /\ cfg # NULL

Events(kind) == {i \in 1..Len(trace) : trace[i].ev = kind}

\* The last call asked kiss_fftr_alloc for a configuration and got NULL.
AllocFailed == \E i \in Events("alloc") : trace[i].ptr = NULL

\* C1: a successful call with output capacity C writes exactly the indices
\* 0 .. min(C, nfft/2) - 1, each once and in order, and writes no index >= C
\* and no index >= nfft/2 (the Nyquist bin is never emitted).
C1_WritesExactlyBins ==
  Succeeded =>
    /\ Len(outLog) = Min(call.outSize, call.nfft \div 2)
    /\ \A i \in 1..Len(outLog) :
         /\ outLog[i].index = i - 1
         /\ outLog[i].index < call.outSize
         /\ outLog[i].index < call.nfft \div 2

\* A successful call whose output array has room for the Nyquist bin too.
C1_Witness ==
  Succeeded /\ call.nfft = 4 /\ call.outSize = 3 /\ Len(outLog) = 2

\* C2: when the allocation inside a call fails, the call has written no
\* output, the cache holds no configuration and the cached size is 0.
C2_AllocFailureEmptiesCache ==
  (IsCompute /\ AllocFailed) =>
    /\ outLog = <<>>
    /\ cfg = NULL
    /\ current_nfft = 0

C4_InvalidSizeIsNoOp ==
  [][(call'.op = "computeFft" /\ call'.nfft <= 0) =>
       /\ UNCHANGED cacheVars
       /\ outLog' = <<>>
       /\ trace' = <<>>]_vars

\* A call with nfft <= 0 made while a configuration is held.
C4_Witness == IsCompute /\ call.nfft <= 0 /\ cfg # NULL

\* The cache before any call.
FreshCache ==
  [cfg |-> NULL, current_nfft |-> 0, window |-> <<>>, fft_out |-> <<>>,
   fft_in |-> <<>>, heap |-> [a \in Addr |-> NoBlock]]

\* C5: the entries a successful call writes are those a first-ever call with
\* the same samples, capacity and size writes, whatever calls came before.
C5_OutputIndependentOfHistory ==
  Succeeded =>
    outLog = computeFft(FreshCache, call.inData, call.outSize, call.nfft,
                        1, TRUE).outLog

\* A successful call that replaced a configuration of another size and wrote
\* more than one bin.
C5_Witness == Succeeded /\ Events("free") # {} /\ Len(outLog) >= 2

\* C6: cleanup always ends with no configuration held and cached size 0, and
\* a cleanup right after a cleanup changes nothing and frees nothing.
C6_CleanupUnconditionalIdempotent ==
  [][call'.op = "cleanupFft" =>
       /\ cfg' = NULL
       /\ current_nfft' = 0
       /\ Live(heap') = {}
       /\ call.op = "cleanupFft" =>
            (UNCHANGED cacheVars /\ trace' = <<>>)]_vars

\* A cleanup that found nothing to free although buffers had been built.
C6_Witness == IsCleanup /\ trace = <<>> /\ Len(window) > 0

\* C7: at most one configuration is live; the live one is the one the cache
\* points to; a free is only ever applied to a live configuration; nothing
\* is live when the replacement is allocated; the transform only runs with a
\* live configuration built for the nfft of the call.
C7_OneLiveConfiguration ==
  /\ Cardinality(Live(heap)) <= 1
  /\ Live(heap) = (IF cfg = NULL THEN {} ELSE {cfg})
  /\ \A i \in Events("free") : trace[i].live
  /\ \A i \in Events("alloc") : trace[i].liveBefore = 0
  /\ \A i \in Events("fftr") :
       /\ trace[i].ptr # NULL
       /\ trace[i].live
       /\ trace[i].stNfft = call.nfft

\* A call that freed the old configuration, allocated a new one and ran the
\* transform with it.
C7_Witness ==
  /\ Events("free") # {}
  /\ \E i \in Events("alloc") : trace[i].ptr # NULL
  /\ Events("fftr") # {}

\* The last call rebuilt the window and the scratch buffers.
Rebuilt == Events("rebuild") # {}

C10_TwiddleIndexWrapped ==
  bpc = "term" =>
    /\ fstride * m * p = Norig
    /\ u \in 0..(m - 1) /\ q1 \in 0..(p - 1) /\ q \in 1..p
    /\ k = u + q1 * m
    /\ twidx \in 0..(Norig - 1)
    /\ twidx = ((q - 1) * fstride * k) % Norig
    /\ Len(Fout[k].sum) = q
    /\ Fout[k].sum[1] = [v |-> scratch[0], tw |-> "none"]
    /\ \A j \in 2..q :
         /\ Fout[k].sum[j].v = scratch[j - 1]
         /\ Fout[k].sum[j].tw \in 0..(Norig - 1)
         /\ Fout[k].sum[j].tw = ((j - 1) * fstride * k) % Norig

\* A step whose running index landed exactly on Norig and was wrapped to 0,
\* in a layer of radix 3 or more.
C10_Witness ==
  bpc = "term" /\ p >= 3 /\ q >= 2 /\ k > 0 /\ twidx = 0 /\ m >= 2

\* C8: with two unsynchronised callers a thread can be interfered with
\* between its ensure step and its end (the other thread frees the
\* configuration or resizes the buffers) and then run with a freed
\* configuration or with buffers of another size; and that is the only way
\* it happens: nothing goes wrong in any call unless two calls have
\* overlapped.
C8_HazardNeedsOverlappingCalls ==
  (crashed \/ \E t \in Threads : ub[t] # {}) => raced

\* A thread that, after another thread freed and resized under it, has run
\* the window loop over buffers of another size and the transform with a
\* freed configuration.
C8_Witness ==
  \E t \in Threads :
    /\ interfered[t]
    /\ {"freedCfg", "wrongSize"} \subseteq ub[t]

====
